---- MODULE Spec2Model ----
(***************************************************************************)
(* Model of the two example servers of tool-pywisp:                        *)
(*   src/examples/tcp/pc-server/main.cpp          (host variant)           *)
(*   src/examples/arduino-due/server/arm/server.cpp (embedded variant)     *)
(* The control tick fContLoop, the trajectory generator fTrajectory, the   *)
(* x read Messung and the keepalive check are translated from these   *)
(* files.  The Transport class (runExp, handleFrames, sendData, reset,     *)
(* run, keepaliveTime) is declared in Transport.h, which is not part of    *)
(* the sources at hand; its operations are modelled from the               *)
(* specification and are marked as such where they are defined.            *)
(***************************************************************************)
EXTENDS Integers, Sequences, FiniteSets, TLC

(***************************************************************************)
(* Binary floating point.  A double is modelled as a binary floating point *)
(* number m * 2^e with round-to-nearest-even and a significand of MantBits *)
(* bits (binary64 has 53; TLC's integers are 32 bits wide, so the model    *)
(* keeps the rounding behaviour and shortens the significand).  A number   *)
(* is kept in canonical form: m = 0 and e = 0, or m odd.  The exponent is  *)
(* unbounded: no value of the model comes near overflow or underflow.      *)
(* An operation F is written as FOf, its rule on values, and F, which      *)
(* takes the value of each argument once and applies FOf to the values,    *)
(* as a C++ function call does.                                            *)
(***************************************************************************)
MantBits == 8

\* a float of the embedded variant (Messung returns float): a shorter significand
FloatBits == MantBits \div 2 + 1

RECURSIVE Pow2(_)
Pow2(n) == IF n <= 0 THEN 1 ELSE 2 * Pow2(n - 1)

\* number of bits of the natural number n
RECURSIVE BL(_)
BL(n) == IF n <= 0 THEN 0 ELSE 1 + BL(n \div 2)

Abs(n) == IF n < 0 THEN -n ELSE n

Sgn(n) == IF n < 0 THEN -1 ELSE IF n = 0 THEN 0 ELSE 1

FZero == [m |-> 0, e |-> 0]

\* the result of a division by zero (inf or nan): no arithmetic is done on it
FNaN == [m |-> 0, e |-> 1]

RECURSIVE Canon(_, _)
CanonOf(m, e) ==
    IF m = 0 THEN FZero
    ELSE IF m % 2 = 0 THEN Canon(m \div 2, e + 1)
    ELSE [m |-> m, e |-> e]

Canon(m0, e0) ==
    CHOOSE r \in {CanonOf(m, e) : m \in {m0}, e \in {e0}} : TRUE

\* sign * n * 2^e (n a natural number) rounded to a significand of p bits,
\* to nearest, ties to even
RoundToOf(p, sign, n, e) ==
    LET k == BL(n) - p IN
    IF k <= 0 THEN Canon(sign * n, e)
    ELSE LET q == n \div Pow2(k)
             r == n % Pow2(k)
             half == Pow2(k - 1)
             up == (r > half) \/ (r = half /\ q % 2 = 1)
         IN Canon(sign * (IF up THEN q + 1 ELSE q), e + k)

RoundTo(p0, sign0, n0, e0) ==
    CHOOSE r \in {RoundToOf(p, sign, n, e) : p \in {p0}, sign \in {sign0}, n \in {n0}, e \in {e0}} : TRUE

Round(sign, n, e) == RoundTo(MantBits, sign, n, e)

\* (double) of an unsigned long or an int: exact, as it is in binary64 for every
\* integer below 2^53
FromInt(n) == Canon(n, 0)

FNeg(a) == [m |-> -a.m, e |-> a.e]

FAddOf(a, b) ==
    IF a = FNaN \/ b = FNaN THEN FNaN
    ELSE IF a.m = 0 THEN b
    ELSE IF b.m = 0 THEN a
    ELSE IF a.e - b.e > 2 * MantBits + 2 THEN a
    ELSE IF b.e - a.e > 2 * MantBits + 2 THEN b
    ELSE LET lo == IF a.e < b.e THEN a.e ELSE b.e
             s == a.m * Pow2(a.e - lo) + b.m * Pow2(b.e - lo)
         IN Round(Sgn(s), Abs(s), lo)

FAdd(a0, b0) ==
    CHOOSE r \in {FAddOf(a, b) : a \in {a0}, b \in {b0}} : TRUE

FSub(a, b) == FAdd(a, FNeg(b))

FMulOf(a, b) ==
    IF a = FNaN \/ b = FNaN THEN FNaN
    ELSE Round(Sgn(a.m) * Sgn(b.m), Abs(a.m) * Abs(b.m), a.e + b.e)

FMul(a0, b0) ==
    CHOOSE r \in {FMulOf(a, b) : a \in {a0}, b \in {b0}} : TRUE

\* a / b: the quotient is taken with MantBits + 2 bits or more and a sticky bit for
\* the remainder, so that the rounding is that of the exact quotient
FDivOf(a, b) ==
    IF a = FNaN \/ b = FNaN \/ b.m = 0 THEN FNaN
    ELSE IF a.m = 0 THEN FZero
    ELSE LET s == MantBits + 2 + BL(Abs(b.m))
             q == (Abs(a.m) * Pow2(s)) \div Abs(b.m)
             r == (Abs(a.m) * Pow2(s)) % Abs(b.m)
             sg == Sgn(a.m) * Sgn(b.m)
         IN IF r = 0 THEN Round(sg, q, a.e - b.e - s)
            ELSE Round(sg, 2 * q + 1, a.e - b.e - s - 1)

FDiv(a0, b0) ==
    CHOOSE r \in {FDivOf(a, b) : a \in {a0}, b \in {b0}} : TRUE

\* a < b and a <= b on numbers (never called with FNaN)
FSign(a) == Sgn(a.m)

FLess(a, b) == FSign(FSub(a, b)) < 0

FLeq(a, b) == FSign(FSub(a, b)) <= 0

\* (float) of a double: rounded to the shorter significand
ToFloatOf(a) == IF a = FNaN THEN FNaN ELSE RoundTo(FloatBits, Sgn(a.m), Abs(a.m), a.e)

ToFloat(a0) ==
    CHOOSE r \in {ToFloatOf(a) : a \in {a0}} : TRUE

(***************************************************************************)
(* Program constants and the bounds of the model.                          *)
(***************************************************************************)
\* main.cpp:14, const unsigned long lDt = 1000
lDtHost == 1000

\* server.cpp:12, const unsigned long lDt = 100
lDtEmbedded == 100

\* server.cpp:13, const unsigned long lKeepalive = 500
lKeepalive == 500

\* server.cpp:22, int xGes=246
xGes == 246

\* ticks after which the scheduler of the model stops firing
MaxTicks == 6

\* frames the inbound queue / the serial receive buffer of the model holds
MaxIn == 1

\* telemetry frames the outbound queue / the serial transmit buffer holds
MaxOut == 1

\* firings the model lets find a tick under way
MaxSkip == 1

\* times 0..MaxT and values 0..MaxVal of the descriptors the trajectory
\* generator is evaluated on as a function
MaxT == 6

MaxVal == 2

\* frames put into each queue where the queues are exercised on their own
MaxLog == 3

VARIABLES
    variant,        \* "host" (main.cpp) or "embedded" (server.cpp)
    timeout,        \* the build's keepalive time: lKeepalive, or 0 (disabled)
    pc,             \* position of the control tick, "idle" between two ticks
    lTime,          \* transport._benchData.lTime
    running,        \* what transport.runExp() returns
    keepaliveTime,  \* transport.keepaliveTime
    trajData,       \* transport._trajData
    x,              \* the global x of server.cpp
    inputQueue,     \* inbound frames not yet handled
    outputQueue,    \* telemetry frames not yet sent
    hist,           \* history of the last tick, the last frame and the queues, read by
                    \* no action
    sched           \* the periodic scheduler and its calls of fContLoop

vars == <<variant, timeout, pc, lTime, running, keepaliveTime, trajData, x,
          inputQueue, outputQueue, hist, sched>>

\* history value: the last evaluation of fTrajectory divided by nothing
NoDiv == -1

\* struct trajData as the Transport leaves it when nothing was received
TrajDefault ==
    [lStartTime |-> 0, lEndTime |-> 0, dStartValue |-> FZero,
     dEndValue |-> FZero, dOutput |-> FZero]

\* div: the divisor of the last evaluation of fTrajectory; rejected: the last frame
\* handled was a descriptor that was refused; lag: lTime - keepaliveTime at the
\* last keepalive check (0: none yet); fired: that check called reset(); steps:
\* the statements the tick under way, or else the last tick, has executed; inEnq,
\* inDeq, outEnq, outDeq: the frames put into and taken from the two queues, kept
\* where the queues are exercised on their own (SpecQueue)
HistDefault ==
    [div |-> NoDiv, rejected |-> FALSE, lag |-> 0, fired |-> FALSE, steps |-> <<>>,
     inEnq |-> <<>>, inDeq |-> <<>>, outEnq |-> <<>>, outDeq |-> <<>>]

\* the scheduler: lead, the number of firings of the timer minus the number of calls
\* of fContLoop that returned (each of the two grows without bound, the model keeps
\* their difference); inflight, the calls that began and did not return yet;
\* skipped, the firings that found a tick under way; overran, such a firing came
\* since the last call began; pending, the firings kept for later.  Of the host
\* process: main, the place main() is at, and threads, the two worker threads of
\* main.cpp:69-72.  The default is the host at work: main() waits in join_all() and
\* both workers run the io_service (the embedded build has no threads and leaves
\* the two fields alone).
SchedDefault ==
    [lead |-> 0, inflight |-> 0, skipped |-> 0, overran |-> FALSE, pending |-> 0,
     main |-> "join", threads |-> <<"run", "run">>]

\* the worker threads that are inside io_service::run: "run" while the thread
\* object owns them, "detached" once it was destroyed without a join
Workers == {i \in 1..2 : sched.threads[i] \in {"run", "detached"}}

\* the handlers of the timer and of the TCP server are dispatched by a thread that
\* runs the io_service (main.cpp:71); the interrupt and the serial line of the
\* embedded build need none
Dispatching ==
    variant = "host" => (Workers # {} /\ sched.main \notin {"returned", "terminated"})

\* the sampling step of the variant
lDt == IF variant = "host" THEN lDtHost ELSE lDtEmbedded

(***************************************************************************)
(* fTrajectory of main.cpp.  The times are unsigned long; the ramp branch  *)
(* is entered with lStartTime <= lTime < lEndTime only, so the unsigned    *)
(* difference lEndTime - lStartTime does not wrap there.  TrajEval gives   *)
(* the value written to dOutput and, as history, the divisor of the        *)
(* division it evaluates (NoDiv when the branch taken does not divide).    *)
(***************************************************************************)
\* the value of the ramp branch, main.cpp:27-29
Ramp(t, td) ==
    LET dM == FDiv(FSub(td.dEndValue, td.dStartValue),
                   FromInt(td.lEndTime - td.lStartTime))
        dN == FSub(td.dEndValue, FMul(dM, FromInt(td.lEndTime)))
    IN FAdd(FMul(dM, FromInt(t)), dN)

\* faulty variant: the hold values exchanged
TrajEvalMutSwap(t, td) ==
    IF t < td.lStartTime
    THEN [out |-> td.dEndValue, div |-> NoDiv]
    ELSE IF t < td.lEndTime
         THEN [out |-> Ramp(t, td), div |-> td.lEndTime - td.lStartTime]
         ELSE [out |-> td.dStartValue, div |-> NoDiv]

\* faulty variant: the ramp branch entered at lTime = lEndTime too
TrajEvalMutLeq(t, td) ==
    IF t < td.lStartTime
    THEN [out |-> td.dStartValue, div |-> NoDiv]
    ELSE IF t <= td.lEndTime
         THEN [out |-> Ramp(t, td), div |-> td.lEndTime - td.lStartTime]
         ELSE [out |-> td.dEndValue, div |-> NoDiv]

TrajEval(t, td) ==
    IF t < td.lStartTime
    THEN [out |-> td.dStartValue, div |-> NoDiv]
    ELSE IF t < td.lEndTime
         THEN [out |-> Ramp(t, td), div |-> td.lEndTime - td.lStartTime]
         ELSE [out |-> td.dEndValue, div |-> NoDiv]

fTrajectory(t, td) == [td EXCEPT !.dOutput = TrajEval(t, td).out]

(***************************************************************************)
(* Messung of server.cpp.  It reads the analog pin twice, first for y and  *)
(* then for x, and returns x.  xValue and y are read by nothing but   *)
(* Messung itself and the pins written with digitalWrite are outputs only: *)
(* the model keeps x.  An int converts to float and to double exactly; the *)
(* float the function returns is the double x rounded.                     *)
(***************************************************************************)
\* readings of analogRead(Eingang_E)
AdcValues == {258, 691}

\* the literal 0.001
Milli == FDiv(FromInt(1), FromInt(1000))

\* server.cpp:51-52 and 59: the value returned for the reading s
Messung(s) ==
    ToFloat(FMul(FAdd(FAdd(FDiv(FMul(FNeg(FromInt(xGes)),
                                     FSub(FromInt(s), FromInt(258))),
                                FSub(FromInt(718), FromInt(258))),
                           FromInt(xGes \div 2)),
                      FromInt(6)),
                 Milli))

(***************************************************************************)
(* The Transport, modelled from the specification (Transport.h and its     *)
(* implementation are not among the sources).  A frame is a start command, *)
(* a stop (reset) command, a trajectory descriptor or any other valid      *)
(* frame.                                                                  *)
(***************************************************************************)
\* Queue<Frame> (main.cpp:56-57), a queue guarded by a lock: each operation is one
\* step.  Push appends, Front is the oldest frame, Pop removes it.
Push(q, f) == Append(q, f)

\* faulty variant: the newest frame
FrontMutBack(q) == q[Len(q)]

Front(q) == Head(q)

Pop(q) == Tail(q)

FrameDescriptors ==
    {[lStartTime |-> st, lEndTime |-> et, dStartValue |-> FromInt(v[1]),
      dEndValue |-> FromInt(v[2]), dOutput |-> FZero] :
        st \in {lDtHost, 2 * lDtHost}, et \in {lDtHost, 3 * lDtHost},
        v \in {<<0, 1>>}}

Frames ==
    {[kind |-> k, d |-> TrajDefault] : k \in {"start", "stop", "other"}}
    \cup {[kind |-> "traj", d |-> d] : d \in FrameDescriptors}

\* the frames that are no trajectory descriptors
CommandFrames == {f \in Frames : f.kind # "traj"}

\* faulty variant: every descriptor accepted
AcceptDescriptorMutAll(d) == TRUE

\* a descriptor is accepted when startTime <= endTime

AcceptDescriptor(d) == d.lStartTime <= d.lEndTime

\* Transport::reset(): experiment state back to its initial values
Reset(s) ==
    [s EXCEPT !.running = FALSE, !.lTime = 0, !.keepaliveTime = 0,
              !.trajData = TrajDefault]

\* one inbound frame handled; s holds running, lTime, keepaliveTime, trajData and
\* rejected.  A valid frame is inbound activity: keepaliveTime becomes lTime.  A
\* descriptor replaces the current one before a run only.
ApplyFrame(s, f) ==
    LET alive == [s EXCEPT !.keepaliveTime = s.lTime, !.rejected = FALSE] IN
    CASE f.kind = "start" -> [alive EXCEPT !.running = TRUE]
      [] f.kind = "stop" -> [Reset(s) EXCEPT !.rejected = FALSE]
      [] f.kind = "other" -> alive
      [] f.kind = "traj" ->
            IF ~AcceptDescriptor(f.d) THEN [s EXCEPT !.rejected = TRUE]
            ELSE IF s.running THEN alive
            ELSE [alive EXCEPT !.trajData =
                        [f.d EXCEPT !.dOutput = s.trajData.dOutput]]

RECURSIVE ApplyFrames(_, _)
ApplyFrames(s, q) ==
    IF q = <<>> THEN s ELSE ApplyFrames(ApplyFrame(s, Front(q)), Pop(q))

TransportState ==
    [running |-> running, lTime |-> lTime, keepaliveTime |-> keepaliveTime,
     trajData |-> trajData, rejected |-> hist.rejected]

\* the variables of the Transport become those of s
SetTransport(s) ==
    /\ running' = s.running
    /\ lTime' = s.lTime
    /\ keepaliveTime' = s.keepaliveTime
    /\ trajData' = s.trajData

(***************************************************************************)
(* The environment: the peer sends a frame, the peer takes a telemetry     *)
(* frame.  Host: the TcpServer on the other worker thread.  Embedded: the  *)
(* serial line.                                                            *)
(***************************************************************************)
Receive(f) ==
    /\ Dispatching
    /\ Len(inputQueue) < MaxIn
    /\ inputQueue' = Push(inputQueue, f)
    /\ UNCHANGED <<variant, timeout, pc, lTime, running, keepaliveTime, trajData,
                   x, outputQueue, hist, sched>>

Transmit ==
    /\ Dispatching
    /\ outputQueue # <<>>
    /\ outputQueue' = Pop(outputQueue)
    /\ UNCHANGED <<variant, timeout, pc, lTime, running, keepaliveTime, trajData,
                   x, inputQueue, hist, sched>>

\* faulty variant: transport.run() also runs while a tick is under way
TransportRunMutInTick ==
    /\ variant = "embedded"
    /\ inputQueue # <<>>
    /\ LET s == ApplyFrame(TransportState, Front(inputQueue)) IN
          /\ SetTransport(s)
          /\ hist' = [hist EXCEPT !.rejected = s.rejected]
    /\ inputQueue' = Pop(inputQueue)
    /\ UNCHANGED <<variant, timeout, pc, x, outputQueue, sched>>

\* server.cpp:149-151, loop(): transport.run() handles one pending frame.  The
\* tick is an interrupt handler: the loop does not run while a tick is under way.
TransportRun ==
    /\ variant = "embedded"
    /\ pc = "idle"
    /\ inputQueue # <<>>
    /\ LET s == ApplyFrame(TransportState, Front(inputQueue)) IN
          /\ SetTransport(s)
          /\ hist' = [hist EXCEPT !.rejected = s.rejected]
    /\ inputQueue' = Pop(inputQueue)
    /\ UNCHANGED <<variant, timeout, pc, x, outputQueue, sched>>

(***************************************************************************)
(* fContLoop, statement by statement.                                      *)
(***************************************************************************)
\* the scheduler calls fContLoop: main.cpp:65 (host), server.cpp:140-141 and the
\* interrupts() of server.cpp:116 (embedded).  The model stops the scheduler after
\* MaxTicks sampling steps of experiment time and lets it fire only when the
\* telemetry of the tick has room in outputQueue, which keeps both finite.
TickFire ==
    /\ pc = "idle"
    /\ Dispatching
    /\ lTime < MaxTicks * lDt
    /\ Len(outputQueue) < MaxOut
    /\ pc' = IF variant = "host" THEN "handle" ELSE "check"
    /\ sched' = [sched EXCEPT !.lead = @ + 1, !.inflight = @ + 1, !.overran = FALSE]
    /\ hist' = [hist EXCEPT !.steps = <<>>]
    /\ UNCHANGED <<variant, timeout, lTime, running, keepaliveTime, trajData,
                   x, inputQueue, outputQueue>>

\* faulty variant: the firing calls fContLoop while a call is under way
TickOverrunMutReenter ==
    /\ pc # "idle"
    /\ sched.skipped < MaxSkip
    /\ pc' = IF variant = "host" THEN "handle" ELSE "check"
    /\ sched' = [sched EXCEPT !.lead = @ + 1, !.inflight = @ + 1]
    /\ hist' = [hist EXCEPT !.steps = <<>>]
    /\ UNCHANGED <<variant, timeout, lTime, running, keepaliveTime, trajData,
                   x, inputQueue, outputQueue>>

\* faulty variant: the firing is kept and run when the tick under way has returned
TickOverrunMutQueue ==
    /\ pc # "idle"
    /\ sched.skipped < MaxSkip
    /\ sched' = [sched EXCEPT !.lead = @ + 1, !.pending = @ + 1, !.overran = TRUE]
    /\ UNCHANGED <<variant, timeout, pc, lTime, running, keepaliveTime, trajData,
                   x, inputQueue, outputQueue, hist>>

\* the timer fires while the call of fContLoop of an earlier firing has not returned:
\* the firing is skipped, it is not kept for later
TickOverrun ==
    /\ pc # "idle"
    /\ sched.skipped < MaxSkip
    /\ sched' = [sched EXCEPT !.lead = @ + 1, !.skipped = @ + 1, !.overran = TRUE]
    /\ UNCHANGED <<variant, timeout, pc, lTime, running, keepaliveTime, trajData,
                   x, inputQueue, outputQueue, hist>>

\* main.cpp:51 and server.cpp:129, fContLoop returns
Return(s) == [s EXCEPT !.lead = @ - 1, !.inflight = @ - 1]

\* faulty variant: handleFrames() waits until a frame has come
HandleFramesMutBlocking ==
    /\ variant = "host"
    /\ pc = "handle"
    /\ inputQueue # <<>>
    /\ LET s == ApplyFrames(TransportState, inputQueue) IN
          /\ SetTransport(s)
          /\ hist' = [hist EXCEPT !.rejected = s.rejected,
                                  !.steps = Append(@, "handle")]
    /\ inputQueue' = <<>>
    /\ pc' = "check"
    /\ UNCHANGED <<variant, timeout, x, outputQueue, sched>>

\* main.cpp:42, transport->handleFrames(): every pending frame, in order
HandleFrames ==
    /\ variant = "host"
    /\ pc = "handle"
    /\ LET s == ApplyFrames(TransportState, inputQueue) IN
          /\ SetTransport(s)
          /\ hist' = [hist EXCEPT !.rejected = s.rejected,
                                  !.steps = Append(@, "handle")]
    /\ inputQueue' = <<>>
    /\ pc' = "check"
    /\ UNCHANGED <<variant, timeout, x, outputQueue, sched>>

\* faulty variant: the test of runExp() left out
CheckRunMutAlways ==
    /\ pc = "check"
    /\ pc' = "advance"
    /\ UNCHANGED <<variant, timeout, lTime, running, keepaliveTime, trajData,
                   x, inputQueue, outputQueue, hist, sched>>

\* faulty variant: the keepalive check of server.cpp placed after the if block
CheckRunMutKeepalive ==
    /\ pc = "check"
    /\ pc' = IF running THEN "advance"
             ELSE IF variant = "embedded" THEN "keepalive" ELSE "idle"
    /\ sched' = IF running \/ variant = "embedded" THEN sched ELSE Return(sched)
    /\ UNCHANGED <<variant, timeout, lTime, running, keepaliveTime, trajData,
                   x, inputQueue, outputQueue, hist>>

\* faulty variant: the telemetry frame is sent whether the experiment runs or not
CheckRunMutSend ==
    /\ pc = "check"
    /\ pc' = IF running THEN "advance" ELSE "send"
    /\ UNCHANGED <<variant, timeout, lTime, running, keepaliveTime, trajData,
                   x, inputQueue, outputQueue, hist, sched>>

\* main.cpp:44 and server.cpp:117, if (transport.runExp())
CheckRun ==
    /\ pc = "check"
    /\ pc' = IF running THEN "advance" ELSE "idle"
    /\ sched' = IF running THEN sched ELSE Return(sched)
    /\ UNCHANGED <<variant, timeout, lTime, running, keepaliveTime, trajData,
                   x, inputQueue, outputQueue, hist>>

\* faulty variant: the call of fTrajectory left out
AdvanceMutSkipTraj ==
    /\ pc = "advance"
    /\ lTime' = lTime + lDt
    /\ hist' = [hist EXCEPT !.steps = Append(@, "advance")]
    /\ pc' = "send"
    /\ UNCHANGED <<variant, timeout, running, keepaliveTime, trajData, x,
                   inputQueue, outputQueue, sched>>

\* main.cpp:45 and server.cpp:118, _benchData.lTime += lDt
Advance ==
    /\ pc = "advance"
    /\ lTime' = lTime + lDt
    /\ hist' = [hist EXCEPT !.steps = Append(@, "advance")]
    /\ pc' = "traj"
    /\ UNCHANGED <<variant, timeout, running, keepaliveTime, trajData, x,
                   inputQueue, outputQueue, sched>>

\* faulty variant: the output computed for the time before lTime += lDt
TrajectoryMutBefore ==
    /\ variant = "host"
    /\ pc = "traj"
    /\ trajData' = fTrajectory(lTime - lDt, trajData)
    /\ hist' = [hist EXCEPT !.div = TrajEval(lTime - lDt, trajData).div,
                            !.steps = Append(@, "traj")]
    /\ pc' = "send"
    /\ UNCHANGED <<variant, timeout, lTime, running, keepaliveTime, x,
                   inputQueue, outputQueue, sched>>

\* main.cpp:47, fTrajectory(&transport->_benchData, &transport->_trajData)
Trajectory ==
    /\ variant = "host"
    /\ pc = "traj"
    /\ trajData' = fTrajectory(lTime, trajData)
    /\ hist' = [hist EXCEPT !.div = TrajEval(lTime, trajData).div,
                            !.steps = Append(@, "traj")]
    /\ pc' = "send"
    /\ UNCHANGED <<variant, timeout, lTime, running, keepaliveTime, x,
                   inputQueue, outputQueue, sched>>

\* server.cpp:94-108 and 120, fTrajectory of the embedded variant:
\* x = Messung(); _trajData->dOutput = x
SensorTrajectory ==
    /\ variant = "embedded"
    /\ pc = "traj"
    /\ \E s \in AdcValues :
          /\ x' = Messung(s)
          /\ trajData' = [trajData EXCEPT !.dOutput = Messung(s)]
    /\ hist' = [hist EXCEPT !.steps = Append(@, "traj")]
    /\ pc' = "send"
    /\ UNCHANGED <<variant, timeout, lTime, running, keepaliveTime,
                   inputQueue, outputQueue, sched>>

\* main.cpp:49 and server.cpp:122, transport.sendData(): one telemetry frame with
\* the time and the output
SendData ==
    /\ pc = "send"
    /\ variant \in {"host", "embedded"}
    /\ outputQueue' = Push(outputQueue, [lTime |-> lTime, dOutput |-> trajData.dOutput])
    /\ pc' = IF variant = "host" THEN "idle" ELSE "keepalive"
    /\ sched' = IF variant = "host" THEN Return(sched) ELSE sched
    /\ hist' = [hist EXCEPT !.steps = Append(@, "send")]
    /\ UNCHANGED <<variant, timeout, lTime, running, keepaliveTime, trajData,
                   x, inputQueue>>

\* faulty variant: >= for >
KeepaliveExpiredMutGeq == timeout # 0 /\ lTime >= keepaliveTime + timeout

\* faulty variant: the test lKeepalive != 0 left out
KeepaliveExpiredMutNoZero == lTime > keepaliveTime + timeout

\* server.cpp:125, the condition of the keepalive check
KeepaliveExpired == timeout # 0 /\ lTime > keepaliveTime + timeout

\* faulty variant: transport.reset() not called
KeepaliveMutNoReset ==
    /\ variant = "embedded"
    /\ pc = "keepalive"
    /\ hist' = [hist EXCEPT !.lag = lTime - keepaliveTime, !.fired = KeepaliveExpired,
                            !.steps = Append(@, "keepalive")]
    /\ pc' = "idle"
    /\ sched' = Return(sched)
    /\ UNCHANGED <<variant, timeout, lTime, running, keepaliveTime, trajData,
                   x, inputQueue, outputQueue>>

\* server.cpp:124-127, handle keepalive signal
Keepalive ==
    /\ variant = "embedded"
    /\ pc = "keepalive"
    /\ IF KeepaliveExpired
       THEN SetTransport(Reset(TransportState))
       ELSE UNCHANGED <<lTime, running, keepaliveTime, trajData>>
    /\ hist' = [hist EXCEPT !.lag = lTime - keepaliveTime, !.fired = KeepaliveExpired,
                            !.steps = Append(@, "keepalive")]
    /\ pc' = "idle"
    /\ sched' = Return(sched)
    /\ UNCHANGED <<variant, timeout, x, inputQueue, outputQueue>>

Init ==
    /\ variant \in {"host", "embedded"}
    /\ timeout \in (IF variant = "host" THEN {0} ELSE {0, lKeepalive})
    /\ pc = "idle"
    /\ lTime = 0
    /\ running = FALSE
    /\ keepaliveTime = 0
    /\ trajData = TrajDefault
    /\ x = FZero
    /\ inputQueue = <<>>
    /\ outputQueue = <<>>
    /\ hist = HistDefault
    /\ sched = SchedDefault

Next ==
    \/ \E f \in Frames : Receive(f)
    \/ Transmit
    \/ TransportRun
    \/ TickFire
    \/ HandleFrames
    \/ CheckRun
    \/ Advance
    \/ Trajectory
    \/ SensorTrajectory
    \/ SendData
    \/ Keepalive

Spec == Init /\ [][Next]_vars

\* the program with a peer that sends commands and no trajectory descriptors
NextCommands ==
    \/ \E f \in CommandFrames : Receive(f)
    \/ Transmit
    \/ TransportRun
    \/ TickFire
    \/ HandleFrames
    \/ CheckRun
    \/ Advance
    \/ Trajectory
    \/ SensorTrajectory
    \/ SendData
    \/ Keepalive

\* and under a timer that also fires while a tick is under way.  Such a firing
\* changes nothing but the scheduler's counts, so the other specifications leave it
\* out.
NextSched == NextCommands \/ TickOverrun

SpecSched == Init /\ [][NextSched]_vars

\* the statements of fContLoop
TickStep ==
    \/ HandleFrames
    \/ CheckRun
    \/ Advance
    \/ Trajectory
    \/ SensorTrajectory
    \/ SendData
    \/ Keepalive

\* the thread (host) or the interrupt handler (embedded) that runs fContLoop goes on
\* running it: a statement of the tick that can be taken is taken.  Nothing is
\* assumed of the peer, of the network context or of the timer.
SpecLive == Init /\ [][NextCommands]_vars /\ WF_vars(TickStep)

(***************************************************************************)
(* main() of the host, main.cpp:55-80, from its first statement to its     *)
(* return, together with the two worker threads it creates.                *)
(***************************************************************************)
InitMain ==
    /\ variant = "host"
    /\ timeout = 0
    /\ pc = "idle"
    /\ lTime = 0
    /\ running = FALSE
    /\ keepaliveTime = 0
    /\ trajData = TrajDefault
    /\ x = FZero
    /\ inputQueue = <<>>
    /\ outputQueue = <<>>
    /\ hist = HistDefault
    /\ sched = [SchedDefault EXCEPT !.main = "setup", !.threads = <<"none", "none">>]

\* main.cpp:62-67: the io_service, the scheduler with its task and the TCP server
\* are constructed
MainSetup ==
    /\ sched.main = "setup"
    /\ sched' = [sched EXCEPT !.main = "spawn"]
    /\ UNCHANGED <<variant, timeout, pc, lTime, running, keepaliveTime, trajData,
                   x, inputQueue, outputQueue, hist>>

\* main.cpp:62-67 and 75: one of the constructors throws (the port is in use);
\* no thread exists yet
MainSetupThrows ==
    /\ sched.main = "setup"
    /\ sched' = [sched EXCEPT !.main = "catch"]
    /\ UNCHANGED <<variant, timeout, pc, lTime, running, keepaliveTime, trajData,
                   x, inputQueue, outputQueue, hist>>

\* the next thread main() creates
NextThread == IF sched.threads[1] = "none" THEN 1 ELSE 2

\* main.cpp:70-73: create_thread starts a worker in io_service::run; after the
\* second one main() calls join_all()
CreateThread ==
    /\ sched.main = "spawn"
    /\ sched' = [sched EXCEPT !.threads[NextThread] = "run",
                              !.main = IF NextThread = 2 THEN "join" ELSE "spawn"]
    /\ UNCHANGED <<variant, timeout, pc, lTime, running, keepaliveTime, trajData,
                   x, inputQueue, outputQueue, hist>>

\* main.cpp:71 and 75: create_thread throws (boost::thread_resource_error).  The
\* stack is unwound to the handler of line 75 without a join: the thread_group
\* is destroyed, and with it the thread object of a worker created before, which
\* either detaches the worker or ends the process (std::terminate), as the
\* build of Boost.Thread has it; then server, scheduler and io_service are
\* destroyed under a detached worker that still runs the io_service.
CreateThreadThrows ==
    /\ sched.main = "spawn"
    /\ \/ sched' = [sched EXCEPT !.main = "catch",
                     !.threads = [i \in 1..2 |-> IF sched.threads[i] = "run"
                                                 THEN "detached" ELSE sched.threads[i]]]
       \/ /\ Workers # {}
          /\ sched' = [sched EXCEPT !.main = "terminated"]
    /\ UNCHANGED <<variant, timeout, pc, lTime, running, keepaliveTime, trajData,
                   x, inputQueue, outputQueue, hist>>

\* main.cpp:71: io_service::run returns in worker i (the io_service was stopped or
\* ran out of work) and the thread ends; a worker does not return from inside the
\* handler it is running
WorkerReturn(i) ==
    /\ sched.threads[i] = "run"
    /\ pc = "idle" \/ Workers \ {i} # {}
    /\ sched' = [sched EXCEPT !.threads[i] = "done"]
    /\ UNCHANGED <<variant, timeout, pc, lTime, running, keepaliveTime, trajData,
                   x, inputQueue, outputQueue, hist>>

\* a detached worker runs an io_service that was destroyed: besides going on as
\* before, it can fault and end the process
DetachedFault ==
    /\ \E i \in 1..2 : sched.threads[i] = "detached"
    /\ sched.main \notin {"returned", "terminated"}
    /\ sched' = [sched EXCEPT !.main = "terminated"]
    /\ UNCHANGED <<variant, timeout, pc, lTime, running, keepaliveTime, trajData,
                   x, inputQueue, outputQueue, hist>>

\* main.cpp:73-74 and 79: join_all() returns when both workers have ended; the
\* objects of the try block are destroyed and main() returns
JoinAll ==
    /\ sched.main = "join"
    /\ \A i \in 1..2 : sched.threads[i] = "done"
    /\ sched' = [sched EXCEPT !.main = "returned"]
    /\ UNCHANGED <<variant, timeout, pc, lTime, running, keepaliveTime, trajData,
                   x, inputQueue, outputQueue, hist>>

\* main.cpp:75-79: the handler prints the message and main() returns
Catch ==
    /\ sched.main = "catch"
    /\ sched' = [sched EXCEPT !.main = "returned"]
    /\ UNCHANGED <<variant, timeout, pc, lTime, running, keepaliveTime, trajData,
                   x, inputQueue, outputQueue, hist>>

NextMain ==
    \/ MainSetup
    \/ MainSetupThrows
    \/ CreateThread
    \/ CreateThreadThrows
    \/ \E i \in 1..2 : WorkerReturn(i)
    \/ DetachedFault
    \/ JoinAll
    \/ Catch
    \/ \E f \in CommandFrames : Receive(f)
    \/ Transmit
    \/ TickFire
    \/ HandleFrames
    \/ CheckRun
    \/ Advance
    \/ Trajectory
    \/ SendData

SpecMain == InitMain /\ [][NextMain]_vars

(***************************************************************************)
(* The trajectory generator as a function: every descriptor and every time *)
(* of a bounded set, evaluated at the times lTime, lTime + 1, ...          *)
(***************************************************************************)
TrajValues == {FromInt(v) : v \in 0..MaxVal}

TrajDescriptors ==
    {[lStartTime |-> st, lEndTime |-> et, dStartValue |-> sv,
      dEndValue |-> ev, dOutput |-> FZero] :
        st \in 0..MaxT, et \in 0..MaxT, sv \in TrajValues, ev \in TrajValues}

InitTraj ==
    /\ variant = "host"
    /\ timeout = 0
    /\ pc = "traj"
    /\ lTime \in 0..MaxT
    /\ running = TRUE
    /\ keepaliveTime = 0
    /\ trajData \in TrajDescriptors
    /\ x = FZero
    /\ inputQueue = <<>>
    /\ outputQueue = <<>>
    /\ hist = HistDefault
    /\ sched = [SchedDefault EXCEPT !.lead = 1, !.inflight = 1]

\* the next evaluation, one time unit later
TrajNextTime ==
    /\ pc = "send"
    /\ lTime < MaxT + 1
    /\ lTime' = lTime + 1
    /\ hist' = [hist EXCEPT !.steps = <<>>]
    /\ pc' = "traj"
    /\ UNCHANGED <<variant, timeout, running, keepaliveTime, trajData, x,
                   inputQueue, outputQueue, sched>>

NextTraj == Trajectory \/ TrajNextTime

SpecTraj == InitTraj /\ [][NextTraj]_vars

(***************************************************************************)
(* The two queues on their own: the network context puts frames into the   *)
(* inbound queue and takes frames from the outbound queue, the control     *)
(* tick takes from the inbound and puts into the outbound queue, in any    *)
(* interleaving; MaxLog frames are put into each queue.                    *)
(***************************************************************************)
InitQueue ==
    /\ variant = "host"
    /\ timeout = 0
    /\ pc = "idle"
    /\ lTime = 0
    /\ running = FALSE
    /\ keepaliveTime = 0
    /\ trajData = TrajDefault
    /\ x = FZero
    /\ inputQueue = <<>>
    /\ outputQueue = <<>>
    /\ hist = HistDefault
    /\ sched = SchedDefault

\* the network context: a received frame is put into the inbound queue
NetEnqueue(f) ==
    /\ Len(hist.inEnq) < MaxLog
    /\ inputQueue' = Push(inputQueue, f)
    /\ hist' = [hist EXCEPT !.inEnq = Append(@, f)]
    /\ UNCHANGED <<variant, timeout, pc, lTime, running, keepaliveTime, trajData,
                   x, outputQueue, sched>>

\* the control tick: the oldest inbound frame is taken
TickDequeue ==
    /\ inputQueue # <<>>
    /\ hist' = [hist EXCEPT !.inDeq = Append(@, Front(inputQueue))]
    /\ inputQueue' = Pop(inputQueue)
    /\ UNCHANGED <<variant, timeout, pc, lTime, running, keepaliveTime, trajData,
                   x, outputQueue, sched>>

\* the control tick: a frame is put into the outbound queue
TickEnqueue(f) ==
    /\ Len(hist.outEnq) < MaxLog
    /\ outputQueue' = Push(outputQueue, f)
    /\ hist' = [hist EXCEPT !.outEnq = Append(@, f)]
    /\ UNCHANGED <<variant, timeout, pc, lTime, running, keepaliveTime, trajData,
                   x, inputQueue, sched>>

\* the network context: the oldest outbound frame is taken and sent
NetDequeue ==
    /\ outputQueue # <<>>
    /\ hist' = [hist EXCEPT !.outDeq = Append(@, Front(outputQueue))]
    /\ outputQueue' = Pop(outputQueue)
    /\ UNCHANGED <<variant, timeout, pc, lTime, running, keepaliveTime, trajData,
                   x, inputQueue, sched>>

NextQueue ==
    \/ \E f \in CommandFrames : NetEnqueue(f)
    \/ TickDequeue
    \/ \E f \in CommandFrames : TickEnqueue(f)
    \/ NetDequeue

SpecQueue == InitQueue /\ [][NextQueue]_vars

(***************************************************************************)
(* Properties of the control tick, checked under Spec.                     *)
(***************************************************************************)

\* C1: in both variants the experiment time lTime increases only in the step
\* lTime += lDt of a control tick, by exactly one sampling step lDt, and only in a
\* tick in which runExp() is true; no other step increases it.
C1_TimeAdvancesOnlyInRunningTick ==
    [][lTime' > lTime =>
          /\ pc = "advance"
          /\ pc' = "traj"
          /\ running
          /\ lTime' = lTime + lDt]_vars

\* a second running tick of the embedded variant has advanced the time
C1_Witness ==
    variant = "embedded" /\ pc = "traj" /\ running /\ lTime = 2 * lDtEmbedded

\* C2: with a keepalive time T > 0 the keepalive check of a tick (the step that
\* leaves pc = "keepalive") makes running false exactly when the time, already advanced by this tick, exceeds
\* keepaliveTime + T: not when it equals keepaliveTime + T, and so between two
\* ticks a running experiment is never beyond keepaliveTime + T.
C2_KeepaliveThreshold ==
    [][/\ (pc = "keepalive" /\ pc' # pc /\ timeout > 0) =>
              /\ (running' = FALSE) <=> (lTime > keepaliveTime + timeout)
              /\ hist'.fired <=> (lTime > keepaliveTime + timeout)
       /\ (variant = "embedded" /\ timeout > 0 /\ pc' = "idle" /\ running') =>
              lTime' <= keepaliveTime' + timeout]_vars

\* the check fired in the first tick beyond the threshold: the tick before, at
\* lTime - keepaliveTime = T, left the experiment running
C2_Witness ==
    /\ variant = "embedded" /\ timeout = lKeepalive /\ pc = "idle"
    /\ hist.fired /\ hist.lag = lKeepalive + lDtEmbedded
    /\ ~running /\ lTime = 0

\* C3: with the keepalive time 0 (disabled) no step of a tick makes running false
\* or resets the experiment state, however long the inbound inactivity.
C3_DisabledNeverResets ==
    [][(variant = "embedded" /\ timeout = 0 /\ pc # "idle") =>
          /\ running' = running
          /\ lTime' >= lTime
          /\ keepaliveTime' = keepaliveTime
          /\ [trajData' EXCEPT !.dOutput = FZero] = [trajData EXCEPT !.dOutput = FZero]
          /\ ~hist'.fired]_vars

\* disabled, inactive for longer than lKeepalive, checked, and still running
C3_Witness ==
    /\ variant = "embedded" /\ timeout = 0 /\ pc = "idle" /\ running
    /\ hist.lag > lKeepalive /\ lTime - keepaliveTime > lKeepalive

\* C4: when the keepalive check finds the time expired, the state after it has
\* running = false, lTime = 0 and the trajectory data cleared, the tick returns,
\* and the ticks after it run and end at the test of runExp().
C4_KeepaliveReset ==
    [][/\ (pc = "keepalive" /\ pc' # pc /\ KeepaliveExpired) =>
              /\ running' = FALSE
              /\ lTime' = 0
              /\ trajData' = TrajDefault
              /\ pc' = "idle"
       /\ (pc = "check" /\ pc' # pc /\ hist.fired /\ ~running) =>
              /\ pc' = "idle"
              /\ UNCHANGED <<lTime, running, trajData, outputQueue>>]_vars

\* a tick after the reset, at its test of runExp()
C4_Witness ==
    /\ variant = "embedded" /\ pc = "check" /\ hist.fired
    /\ ~running /\ lTime = 0 /\ trajData = TrajDefault

\* the number of times the statement v occurs in the statements st of a tick
Occurrences(st, v) == Cardinality({i \in DOMAIN st : st[i] = v})

\* a tick returns with this step
TickReturns == pc # "idle" /\ pc' = "idle"

\* C14 as claimed: in both variants every tick, running or not, has executed the
\* keepalive check exactly once when it returns, after its trajectory/output step,
\* and the check compared the time as advanced by the tick.
C14_KeepaliveOnceEveryTick ==
    [][TickReturns =>
          /\ Occurrences(hist'.steps, "keepalive") = 1
          /\ \A i, j \in DOMAIN hist'.steps :
                (hist'.steps[i] \in {"traj", "send"} /\ hist'.steps[j] = "keepalive")
                    => i < j
          /\ hist'.lag = lTime - keepaliveTime]_vars

\* C14 as amended: in the embedded variant every tick that finds the experiment
\* running executes the keepalive check exactly once, as its last statement after
\* the trajectory/output step and the telemetry, and the check compares the time
\* this tick has advanced; a tick that finds the experiment not running executes no
\* check, and the tick of the host variant never does.
C14_KeepaliveOnceEveryRunningEmbeddedTick ==
    [][/\ TickReturns =>
              /\ Occurrences(hist'.steps, "keepalive") =
                    (IF variant = "embedded" /\ Occurrences(hist'.steps, "advance") = 1
                     THEN 1 ELSE 0)
              /\ Occurrences(hist'.steps, "advance") = (IF pc = "check" THEN 0 ELSE 1)
       /\ (pc = "keepalive" /\ pc' # pc) =>
              /\ variant = "embedded"
              /\ hist.steps = <<"advance", "traj", "send">>
              /\ hist'.lag = lTime - keepaliveTime
              /\ hist'.fired <=> (timeout # 0 /\ lTime > keepaliveTime + timeout)
              /\ pc' = "idle"
       /\ (pc = "advance" /\ pc' # pc) => lTime' = lTime + lDt
       /\ (pc \in {"traj", "send"}) => lTime' = lTime /\ keepaliveTime' = keepaliveTime
       /\ (pc = "check" /\ pc' # pc /\ ~running) => pc' = "idle" /\ hist' = hist]_vars

\* a running tick of the embedded variant returned after its one check, which
\* compared the time the tick had advanced to two sampling steps
C14_Witness ==
    /\ variant = "embedded" /\ timeout = lKeepalive /\ pc = "idle" /\ running
    /\ hist.steps = <<"advance", "traj", "send", "keepalive">>
    /\ lTime = 2 * lDtEmbedded /\ hist.lag = lTime - keepaliveTime /\ ~hist.fired

\* C15 as claimed: the statements of a tick occur in the order inbound frames
\* consumed, time advanced, output computed, telemetry enqueued, keepalive check,
\* and a running tick executes all five.
C15_FiveStepsInOrder ==
    [][TickReturns =>
          /\ \A i, j \in DOMAIN hist'.steps :
                i < j => <<hist'.steps[i], hist'.steps[j]>> \in
                    {<<"handle", "advance">>, <<"handle", "traj">>, <<"handle", "send">>,
                     <<"handle", "keepalive">>, <<"advance", "traj">>,
                     <<"advance", "send">>, <<"advance", "keepalive">>,
                     <<"traj", "send">>, <<"traj", "keepalive">>,
                     <<"send", "keepalive">>}
          /\ Occurrences(hist'.steps, "advance") = 1 =>
                hist'.steps = <<"handle", "advance", "traj", "send", "keepalive">>]_vars

\* C15 as amended: a running tick of the host variant consumes the pending inbound
\* frames, advances the time, computes the output and writes it to the trajectory
\* data, and enqueues one telemetry frame, in this order and with no keepalive
\* check; a running tick of the embedded variant advances the time, reads the sensor
\* value and writes it as the output, enqueues one telemetry frame and executes the
\* keepalive check, in this order, its inbound frames being consumed by
\* transport.run() in the idle loop and not by the tick.  No statement is skipped
\* or out of order.
C15_StepsOfTheVariantInOrder ==
    [][/\ TickReturns =>
              hist'.steps =
                  (IF Occurrences(hist'.steps, "advance") = 0
                   THEN (IF variant = "host" THEN <<"handle">> ELSE <<>>)
                   ELSE IF variant = "host"
                        THEN <<"handle", "advance", "traj", "send">>
                        ELSE <<"advance", "traj", "send", "keepalive">>)
       /\ (pc = "check" /\ pc' # pc /\ running) => pc' = "advance"
       /\ (pc = "handle" /\ pc' # pc) => inputQueue' = <<>> /\ lTime' \in {lTime, 0}
       /\ (pc = "traj" /\ pc' # pc) =>
              /\ variant = "host" => trajData'.dOutput = TrajEval(lTime, trajData).out
              /\ variant = "embedded" => trajData'.dOutput = x'
              /\ outputQueue' = outputQueue
       /\ (pc = "send" /\ pc' # pc) =>
              /\ Len(outputQueue') = Len(outputQueue) + 1
              /\ outputQueue'[Len(outputQueue')] =
                    [lTime |-> lTime, dOutput |-> trajData.dOutput]
       /\ (variant = "embedded" /\ pc # "idle") => inputQueue' = inputQueue
                                                    \/ Len(inputQueue') > Len(inputQueue)
      ]_vars

\* the first running tick of the host returned: it consumed the start command,
\* advanced the time by one sampling step, computed and sent
C15_Witness ==
    /\ variant = "host" /\ pc = "idle" /\ running /\ lTime = lDtHost
    /\ hist.steps = <<"handle", "advance", "traj", "send">>
    /\ inputQueue = <<>> /\ Len(outputQueue) = 1 /\ outputQueue[1].lTime = lDtHost

\* C16 as claimed: the elapsed time and the running flag are written by statements
\* of a control tick only, in both variants.
C16_BenchDataWrittenInTickOnly ==
    [][(lTime' # lTime \/ running' # running) => (pc # "idle" /\ pc' # pc)]_vars

\* C16 as amended: in the host variant the elapsed time and the running flag are
\* written by statements of a control tick only.  In the embedded variant the time
\* is advanced in the tick only, and besides the tick transport.run() in the idle
\* loop writes them when it handles a start or a stop command: it sets the flag,
\* or clears it and puts the time back to 0.  In both variants no step taken by
\* another context while a tick is under way writes them.
C16_BenchDataWriters ==
    [][/\ (lTime' # lTime \/ running' # running) =>
              \/ pc # "idle" /\ pc' # pc
              \/ /\ variant = "embedded" /\ pc = "idle" /\ pc' = "idle"
                 /\ inputQueue # <<>> /\ inputQueue' = Pop(inputQueue)
                 /\ \/ Front(inputQueue).kind = "start" /\ running' /\ lTime' = lTime
                    \/ Front(inputQueue).kind = "stop" /\ ~running' /\ lTime' = 0
       /\ lTime' > lTime => pc = "advance" /\ pc' = "traj"
       /\ (pc # "idle" /\ pc' = pc) => lTime' = lTime /\ running' = running]_vars

\* transport.run() handled a stop command after a running tick of the embedded
\* variant: the flag is cleared and the time is back at 0 without a keepalive reset
C16_Witness ==
    /\ variant = "embedded" /\ pc = "idle" /\ ~running /\ lTime = 0
    /\ hist.steps = <<"advance", "traj", "send", "keepalive">>
    /\ ~hist.fired /\ hist.lag = lDtEmbedded

\* the tick tests runExp() and finds it false
FindsNotRunning == pc = "check" /\ pc' # pc /\ ~running

\* handleFrames() of a host tick that will find runExp() false: the flag does not
\* change between handleFrames() and the test
HandlesThenNotRunning == pc = "handle" /\ pc' # pc /\ ~running'

\* the step changes neither the elapsed time nor the trajectory output nor the
\* keepalive state, and enqueues no telemetry frame
NoEffect ==
    /\ lTime' = lTime /\ trajData' = trajData /\ x' = x
    /\ keepaliveTime' = keepaliveTime /\ running' = running
    /\ outputQueue' = outputQueue
    /\ hist'.fired = hist.fired /\ hist'.lag = hist.lag

\* C19 as claimed: a control tick in which runExp() is false leaves the elapsed
\* time and the trajectory output as they were when the tick began, enqueues no
\* telemetry frame and, in the embedded variant, makes no keepalive check and no
\* reset; in the host variant it consumes the pending inbound frames.
C19_NotRunningTickChangesNothing ==
    [][/\ FindsNotRunning => (pc' = "idle" /\ NoEffect /\ inputQueue' = inputQueue)
       /\ HandlesThenNotRunning =>
              /\ inputQueue' = <<>> /\ outputQueue' = outputQueue
              /\ lTime' = lTime /\ trajData'.dOutput = trajData.dOutput]_vars

\* C19 as amended: a control tick that finds runExp() false returns at once: from
\* the test on it leaves the elapsed time and the trajectory output unchanged,
\* enqueues no telemetry frame and, in the embedded variant, makes no keepalive
\* check and no reset.  In the host variant handleFrames() has consumed every
\* pending inbound frame before the test and has enqueued no telemetry frame, but
\* the commands it handled can have changed the elapsed time in that tick: a stop
\* command, which makes runExp() false, puts it back to 0.
C19_NotRunningTickReturnsAtOnce ==
    [][/\ FindsNotRunning => (pc' = "idle" /\ NoEffect /\ inputQueue' = inputQueue)
       /\ HandlesThenNotRunning =>
              /\ inputQueue' = <<>> /\ outputQueue' = outputQueue
              /\ lTime' \in {lTime, 0}
              /\ (lTime' # lTime \/ trajData'.dOutput # trajData.dOutput) =>
                     \E i \in 1..Len(inputQueue) : inputQueue[i].kind = "stop"]_vars

\* a host tick consumed its inbound frames, the last of them a descriptor that was
\* rejected, found runExp() false and returned
C19_Witness ==
    /\ variant = "host" /\ pc = "idle" /\ hist.steps = <<"handle">>
    /\ ~running /\ hist.rejected /\ inputQueue = <<>> /\ outputQueue = <<>>

\* the tick enqueues its telemetry frame
Sends == pc = "send" /\ pc' # pc

\* the elapsed time of a run: 0 when no experiment runs, and changed only by
\* lTime += lDt of a running tick or by a reset to 0, so that the k-th running
\* tick of a run advances it to k * lDt
RunTime ==
    /\ (~running => lTime = 0) /\ (~running' => lTime' = 0)
    /\ lTime' # lTime =>
          \/ pc = "advance" /\ pc' = "traj" /\ running /\ lTime' = lTime + lDt
          \/ lTime' = 0

\* the sent frame has the elapsed time of the tick, which is k * lDt for some
\* k >= 1, and the tick has advanced the time and computed the output before
TelemetryOfThisTick ==
    /\ \E k \in 1..MaxTicks : lTime = k * lDt
    /\ Len(hist.steps) >= 2
    /\ SubSeq(hist.steps, Len(hist.steps) - 1, Len(hist.steps)) = <<"advance", "traj">>
    /\ \E out \in {trajData.dOutput} :
          outputQueue' = Push(outputQueue, [lTime |-> lTime, dOutput |-> out])

C10_NoInvalidDescriptorAtCompute ==
    pc = "traj" => trajData.lStartTime <= trajData.lEndTime

\* a descriptor was refused in this tick, which went on to compute with the
\* descriptor accepted before
C10_Witness ==
    /\ variant = "host" /\ pc = "send" /\ hist.rejected /\ running
    /\ trajData.lStartTime < trajData.lEndTime

(***************************************************************************)
(* The end of the host process, checked under SpecMain.                    *)
(***************************************************************************)
\* main() is past the try block: in the handler of line 75 or returned
Teardown == sched.main \in {"catch", "returned"}

\* C18: once main() of the host is past its try block no control tick is under
\* way and none can start, no worker thread runs the io_service any more, and
\* when main() has returned every worker thread it created has ended and was
\* joined.
C18_NoTickAfterTeardown ==
    /\ Teardown => (pc = "idle" /\ Workers = {})
    /\ sched.main = "returned" => \A i \in 1..2 : sched.threads[i] \in {"none", "done"}

(***************************************************************************)
(* Properties of the scheduler, checked under SpecSched.                   *)
(***************************************************************************)

\* C11: whenever the timer fires again before the tick under way has returned, at
\* most one call of fContLoop is in flight, and the number of calls that returned
\* never exceeds the number of firings.
C11_NoTickReentrancy ==
    /\ sched.inflight <= 1
    /\ sched.lead >= 0
    /\ sched.inflight = 1 <=> pc # "idle"

\* the timer has fired while a tick of the embedded variant was computing
C11_Witness ==
    /\ variant = "embedded" /\ pc = "send" /\ sched.overran
    /\ sched.inflight = 1 /\ sched.lead = 2

\* C17: a firing that finds a tick under way is skipped and not kept: it changes
\* nothing of the tick and queues nothing, every tick begins with a firing of its
\* own while nothing is in flight or pending, and after an overrun the timer can
\* fire and begin a tick again.
C17_OverrunSkippedNotQueued ==
    /\ [][/\ (pc # "idle" /\ sched'.lead > sched.lead) =>
                /\ sched' = [sched EXCEPT !.lead = @ + 1, !.skipped = @ + 1,
                                          !.overran = TRUE]
                /\ UNCHANGED <<pc, lTime, running, keepaliveTime, trajData, x,
                               inputQueue, outputQueue>>
          /\ (sched'.inflight > sched.inflight) =>
                /\ pc = "idle" /\ sched.inflight = 0 /\ sched.pending = 0
                /\ sched'.lead = sched.lead + 1
                /\ sched'.skipped = sched.skipped]_vars
    /\ [](sched.pending = 0)
    /\ []((pc = "idle" /\ lTime < MaxTicks * lDt /\ Len(outputQueue) < MaxOut) =>
              ENABLED TickFire)

\* a tick began after a tick that was overrun had returned
C17_Witness ==
    /\ pc = "check" /\ sched.skipped = 1 /\ ~sched.overran
    /\ sched.inflight = 1 /\ sched.lead = 2

C12_QueuesAreFifo ==
    /\ hist.inEnq = hist.inDeq \o inputQueue
    /\ hist.outEnq = hist.outDeq \o outputQueue

\* three different frames went through the inbound queue while frames were in
\* the outbound queue, two of them waiting together
C12_Witness ==
    /\ Len(hist.inDeq) = 3
    /\ hist.inDeq[1] # hist.inDeq[2] /\ hist.inDeq[2] # hist.inDeq[3]
    /\ hist.inDeq[1] # hist.inDeq[3]
    /\ Len(outputQueue) = 2 /\ outputQueue[1] # outputQueue[2]
    /\ Len(hist.outDeq) = 1

(***************************************************************************)
(* Properties of fTrajectory as a function, checked under SpecTraj: in a   *)
(* state with pc = "send" dOutput is the value computed at lTime.          *)
(***************************************************************************)

\* C5: for every descriptor and every lTime < lStartTime the output is exactly
\* dStartValue.
C5_HoldBeforeStart ==
    (pc = "send" /\ lTime < trajData.lStartTime) =>
        trajData.dOutput = trajData.dStartValue

C5_Witness ==
    /\ pc = "send" /\ lTime < trajData.lStartTime
    /\ trajData.dStartValue # FZero /\ trajData.dStartValue # trajData.dEndValue
    /\ trajData.dOutput = trajData.dStartValue

Interpolate(t, td) ==
    FAdd(td.dStartValue,
         FDiv(FMul(FSub(td.dEndValue, td.dStartValue), FromInt(t - td.lStartTime)),
              FromInt(td.lEndTime - td.lStartTime)))

\* C7: for lStartTime <= lTime < lEndTime the output of the slope/intercept form
\* equals startValue + (endValue - startValue) * (lTime - startTime) /
\* (endTime - startTime), and at lTime = lStartTime it equals startValue.
C7_RampIsLinearInterpolation ==
    (pc = "send" /\ trajData.lStartTime <= lTime /\ lTime < trajData.lEndTime) =>
        /\ trajData.dOutput = Interpolate(lTime, trajData)
        /\ lTime = trajData.lStartTime => trajData.dOutput = trajData.dStartValue

\* a is between b and c, inclusive
Between(a, b, c) ==
    \/ FLeq(b, a) /\ FLeq(a, c)
    \/ FLeq(c, a) /\ FLeq(a, b)

\* C8: for lStartTime <= lEndTime the output lies between startValue and endValue
\* inclusive and is monotonic in the time: no output at an earlier time is beyond
\* the output at lTime in the direction of the ramp.
C8_MonotonicWithinBounds ==
    (pc = "send" /\ trajData.lStartTime <= trajData.lEndTime) =>
        /\ Between(trajData.dOutput, trajData.dStartValue, trajData.dEndValue)
        /\ \A t \in 0..lTime :
              IF FLeq(trajData.dStartValue, trajData.dEndValue)
              THEN FLeq(TrajEval(t, trajData).out, trajData.dOutput)
              ELSE FLeq(trajData.dOutput, TrajEval(t, trajData).out)

\* C9: for lStartTime = lEndTime no evaluation divides by lEndTime - lStartTime,
\* and the output is dEndValue whenever lTime >= lStartTime.
C9_EqualTimesNeverDivide ==
    (pc = "send" /\ trajData.lStartTime = trajData.lEndTime) =>
        /\ hist.div = NoDiv
        /\ lTime >= trajData.lStartTime => trajData.dOutput = trajData.dEndValue

C9_Witness ==
    /\ pc = "send" /\ trajData.lStartTime = trajData.lEndTime
    /\ lTime = trajData.lStartTime /\ lTime > 0
    /\ trajData.dEndValue # trajData.dStartValue
    /\ trajData.dOutput = trajData.dEndValue

====
